---------------------------- MODULE Spec2Model ----------------------------
(***************************************************************************)
(* A model of dialogUI/lib/background.c: one BackgroundInfo instance       *)
(* (bg, alpha, m, container) shared by the GTK "draw" callback, which runs *)
(* on the UI thread, and by callers of the setters, which may run on other *)
(* threads.  Every C statement that reads or writes shared state is one    *)
(* step; the program counter of a thread names the source line it is about *)
(* to execute.                                                             *)
(*                                                                         *)
(* Surfaces are numbered in order of construction; surfaces[s].rel counts  *)
(* the cairo_surface_destroy calls made on surface s by this file.         *)
(* alpha holds integral doubles (1 stands for 1.0).  The plain loads and   *)
(* stores of info->bg and info->alpha made outside the mutex are single    *)
(* aligned word accesses: a racing load yields the value before or after   *)
(* the racing store, which is what the interleaving of steps produces.     *)
(***************************************************************************)
EXTENDS Integers, Sequences, FiniteSets, TLC

\* ------------------------------------------------------------------ bounds
\* Total number of calls (draw callbacks, setters, change_alpha) begun.
MaxCalls == 3

\* -------------------------------------------------------- program constants
NULL == 0

\* ------------------------------------------------------------- environment
UI == "ui"
Callers == {"c1", "c2"}
Threads == {UI} \cup Callers
NoOwner == "none"

\* X drawable ids handed to set_background_by_drawable; BadDrawable is an id
\* for which XGetGeometry raises an X error.
BadDrawable == -1
Drawables == {7, BadDrawable}
\* width/height pairs XGetGeometry can report (zero-sized drawables included)
Geometries == {<<2, 1>>, <<0, 0>>}

\* file names handed to set_background_by_file, and the size of the pixbuf
\* gdk_pixbuf_new_from_file decodes ("missing" sets the GError).
Files == {"bg.png", "missing"}
Decodable == {"bg.png"}
ImageSize(f) == <<100, 50>>

\* values handed to change_alpha: inside and outside [0,1]
AlphaArgs == {0, 2}

Range(s) == {s[k] : k \in DOMAIN s}
\* the lists gtk_container_get_children can return: no child, or widgets 2
\* and 1 in that order
ChildLists == {<<>>, <<2, 1>>}

VARIABLES
  \* BackgroundInfo
  bg,         \* info->bg: NULL or a surface number
  alpha,      \* info->alpha
  mutex,      \* info->m: the thread holding it, or NoOwner
  freed,      \* TRUE after background_info_clear
  \* cairo / gdk
  surfaces,   \* every surface constructed so far
  \* threads
  pc,         \* where each thread is
  arg,        \* argument of the caller's current (or last) call
  width,      \* set_background_by_drawable: local width
  height,     \* set_background_by_drawable: local height
  pb,         \* set_background_by_file: the pixbuf ("none", "held", "unref")
  acq,        \* g_mutex_lock calls completed by the thread in its call
  invBy,      \* gdk_window_invalidate_rect requests made by the caller in its call
  relBy,      \* cairo_surface_destroy calls made by the caller in its call
  mine,       \* surface constructed by the caller in its call
  ncalls,     \* calls begun so far
  \* draw callback
  crSource,   \* cr's source surface
  paintLog,   \* paints made on cr in this callback, in order
  kids,       \* children, as gtk_container_get_children returned it
  visible,    \* the children for which gtk_widget_get_visible is TRUE
  ret         \* value returned by the callback

infoVars == <<bg, alpha, mutex, freed>>
callVars == <<arg, width, height, pb, invBy, relBy, mine>>
drawVars == <<crSource, paintLog, kids, visible, ret>>
vars == <<infoVars, surfaces, pc, acq, ncalls, callVars, drawVars>>

Live(s) == s \in 1..Len(surfaces) /\ surfaces[s].rel = 0
LiveSet == {s \in 1..Len(surfaces) : surfaces[s].rel = 0}

\* cairo_surface_destroy(s): the surface's storage is gone; the count of
\* releases made on it stays
Destroy(s) ==
  [surfaces EXCEPT ![s] =
     [kind |-> "released", src |-> NULL, w |-> 0, h |-> 0, rel |-> @.rel + 1]]

Goto(t, l) == pc' = [pc EXCEPT ![t] = l]

\* create_background_info
Init ==
  /\ bg = NULL
  /\ alpha = 1
  /\ mutex = NoOwner
  /\ freed = FALSE
  /\ surfaces = <<>>
  /\ pc = [t \in Threads |-> "idle"]
  /\ arg = [t \in Callers |-> NULL]
  /\ width = [t \in Callers |-> 0]
  /\ height = [t \in Callers |-> 0]
  /\ pb = [t \in Callers |-> "none"]
  /\ acq = [t \in Threads |-> 0]
  /\ invBy = [t \in Callers |-> 0]
  /\ relBy = [t \in Callers |-> 0]
  /\ mine = [t \in Callers |-> NULL]
  /\ ncalls = 0
  /\ crSource = NULL
  /\ paintLog = <<>>
  /\ kids = <<>>
  /\ visible = {}
  /\ ret = "none"

\* a mutator returns to its caller: its frame and the per-call counts are gone
Leave(t) ==
  /\ Goto(t, "idle")
  /\ arg' = [arg EXCEPT ![t] = NULL]
  /\ width' = [width EXCEPT ![t] = 0]
  /\ height' = [height EXCEPT ![t] = 0]
  /\ pb' = [pb EXCEPT ![t] = "none"]
  /\ acq' = [acq EXCEPT ![t] = 0]
  /\ invBy' = [invBy EXCEPT ![t] = 0]
  /\ relBy' = [relBy EXCEPT ![t] = 0]
  /\ mine' = [mine EXCEPT ![t] = NULL]
  /\ UNCHANGED <<infoVars, surfaces, ncalls, drawVars>>

CanCall(t) == ~freed /\ pc[t] = "idle" /\ ncalls < MaxCalls

\* a caller enters one of the three mutators with argument a, at line l
Enter(t, a, l) ==
  /\ CanCall(t)
  /\ ncalls' = ncalls + 1
  /\ Goto(t, l)
  /\ arg' = [arg EXCEPT ![t] = a]
  /\ width' = [width EXCEPT ![t] = 0]
  /\ height' = [height EXCEPT ![t] = 0]
  /\ pb' = [pb EXCEPT ![t] = "none"]
  /\ acq' = [acq EXCEPT ![t] = 0]
  /\ invBy' = [invBy EXCEPT ![t] = 0]
  /\ relBy' = [relBy EXCEPT ![t] = 0]
  /\ mine' = [mine EXCEPT ![t] = NULL]
  /\ UNCHANGED <<infoVars, surfaces, drawVars>>


\* ------------------------------------------- background_info_draw_callback
\* the "draw" signal is dispatched to the callback with a fresh cr
DrawBegin ==
  /\ CanCall(UI)
  /\ ncalls' = ncalls + 1
  /\ Goto(UI, "draw7")
  /\ acq' = [acq EXCEPT ![UI] = 0]
  /\ crSource' = NULL
  /\ paintLog' = <<>>
  /\ kids' = <<>>
  /\ visible' = {}
  /\ ret' = "none"
  /\ UNCHANGED <<infoVars, surfaces, callVars>>

\* line 7: if (info->bg != NULL), read outside the mutex
Draw7 ==
  /\ pc[UI] = "draw7"
  /\ IF bg # NULL THEN Goto(UI, "draw8") ELSE Goto(UI, "draw14")
  /\ UNCHANGED <<infoVars, surfaces, acq, ncalls, callVars, drawVars>>

\* Draw8 without the g_mutex_lock
Draw8NoLock ==
  /\ pc[UI] = "draw8"
  /\ Goto(UI, "draw9")
  /\ UNCHANGED <<infoVars, surfaces, acq, ncalls, callVars, drawVars>>

\* line 8: g_mutex_lock(&info->m)
Draw8 ==
  /\ pc[UI] = "draw8"
  /\ mutex = NoOwner
  /\ mutex' = UI
  /\ acq' = [acq EXCEPT ![UI] = @ + 1]
  /\ Goto(UI, "draw9")
  /\ UNCHANGED <<bg, alpha, freed, surfaces, ncalls, callVars, drawVars>>

\* line 9: cairo_set_source_surface(cr, info->bg, 0, 0)
Draw9 ==
  /\ pc[UI] = "draw9"
  /\ crSource' = bg
  /\ Goto(UI, "draw10")
  /\ UNCHANGED <<infoVars, surfaces, acq, ncalls, callVars,
                 paintLog, kids, visible, ret>>

\* line 10: cairo_paint_with_alpha(cr, info->alpha)
Draw10 ==
  /\ pc[UI] = "draw10"
  /\ paintLog' = Append(paintLog, [what |-> "surface", obj |-> crSource, a |-> alpha])
  /\ Goto(UI, "draw11")
  /\ UNCHANGED <<infoVars, surfaces, acq, ncalls, callVars,
                 crSource, kids, visible, ret>>

\* Draw11 without the g_mutex_unlock
Draw11NoUnlock ==
  /\ pc[UI] = "draw11"
  /\ Goto(UI, "draw14")
  /\ UNCHANGED <<infoVars, surfaces, acq, ncalls, callVars, drawVars>>

\* line 11: g_mutex_unlock(&info->m)
Draw11 ==
  /\ pc[UI] = "draw11"
  /\ mutex' = NoOwner
  /\ Goto(UI, "draw14")
  /\ UNCHANGED <<bg, alpha, freed, surfaces, acq, ncalls, callVars, drawVars>>

\* PaintChildren without the gtk_widget_get_visible test
RECURSIVE PaintChildrenAll(_, _, _, _)
PaintChildrenAll(cl, v, k, log) ==
  IF k > Len(cl) THEN log
  ELSE PaintChildrenAll(cl, v, k + 1,
         Append(log, [what |-> "child", obj |-> cl[k], a |-> 1]))

\* lines 15-21: the loop over children from position k on, appending to log
\* one paint at (0,0) per child for which gtk_widget_get_visible is TRUE
RECURSIVE PaintChildren(_, _, _, _)
PaintChildren(cl, v, k, log) ==
  IF k > Len(cl) THEN log
  ELSE PaintChildren(cl, v, k + 1,
         IF cl[k] \in v
           THEN Append(log, [what |-> "child", obj |-> cl[k], a |-> 1])
           ELSE log)

\* Draw14 returning FALSE
Draw14ReturnsFalse ==
  /\ pc[UI] = "draw14"
  /\ \E cl \in ChildLists : \E v \in SUBSET Range(cl) :
       /\ kids' = cl
       /\ visible' = v
       /\ paintLog' = PaintChildren(cl, v, 1, paintLog)
  /\ ret' = "FALSE"
  /\ Goto(UI, "drawn")
  /\ UNCHANGED <<infoVars, surfaces, acq, ncalls, callVars, crSource>>

\* lines 14-24: children = gtk_container_get_children(w); the loop;
\* g_list_free(children); return TRUE.  Nothing here reads or writes *info.
Draw14 ==
  /\ pc[UI] = "draw14"
  /\ \E cl \in ChildLists : \E v \in SUBSET Range(cl) :
       /\ kids' = cl
       /\ visible' = v
       /\ paintLog' = PaintChildren(cl, v, 1, paintLog)
  /\ ret' = "TRUE"
  /\ Goto(UI, "drawn")
  /\ UNCHANGED <<infoVars, surfaces, acq, ncalls, callVars, crSource>>

\* the signal emission ends: GTK takes the return value and drops cr
DrawEnd ==
  /\ pc[UI] = "drawn"
  /\ Goto(UI, "idle")
  /\ acq' = [acq EXCEPT ![UI] = 0]
  /\ crSource' = NULL
  /\ paintLog' = <<>>
  /\ kids' = <<>>
  /\ visible' = {}
  /\ ret' = "none"
  /\ UNCHANGED <<infoVars, surfaces, ncalls, callVars>>

Draw ==
  \/ DrawBegin \/ Draw7 \/ Draw8 \/ Draw9 \/ Draw10 \/ Draw11
  \/ Draw14 \/ DrawEnd

\* ------------------------------ background_info_set_background_by_drawable
SetDrawableBegin(t) == \E d \in Drawables : Enter(t, d, "xid34")

\* Xid34Fail invalidating the window before it returns
Xid34FailInvalidates(t) ==
  /\ pc[t] = "xid34"
  /\ arg[t] = BadDrawable
  /\ invBy' = [invBy EXCEPT ![t] = @ + 1]
  /\ Goto(t, "xid37")
  /\ UNCHANGED <<infoVars, surfaces, acq, ncalls, drawVars,
                 arg, width, height, pb, relBy, mine>>

\* lines 33-36: XGetGeometry inside the error trap raised an X error; g_warning
Xid34Fail(t) ==
  /\ pc[t] = "xid34"
  /\ arg[t] = BadDrawable
  /\ Goto(t, "xid37")
  /\ UNCHANGED <<infoVars, surfaces, acq, ncalls, drawVars,
                 arg, width, height, pb, invBy, relBy, mine>>

\* lines 33-35: XGetGeometry stored the drawable's width and height
Xid34Ok(t) ==
  /\ pc[t] = "xid34"
  /\ arg[t] # BadDrawable
  /\ \E g \in Geometries :
       /\ width' = [width EXCEPT ![t] = g[1]]
       /\ height' = [height EXCEPT ![t] = g[2]]
  /\ Goto(t, "xid40")
  /\ UNCHANGED <<infoVars, surfaces, acq, ncalls, drawVars,
                 arg, pb, invBy, relBy, mine>>

\* line 40: g_mutex_lock(&info->m)
Xid40(t) ==
  /\ pc[t] = "xid40"
  /\ mutex = NoOwner
  /\ mutex' = t
  /\ acq' = [acq EXCEPT ![t] = @ + 1]
  /\ Goto(t, "xid41")
  /\ UNCHANGED <<bg, alpha, freed, surfaces, ncalls, callVars, drawVars>>

\* Xid41 without the cairo_surface_destroy
Xid41NoDestroy(t) ==
  /\ pc[t] = "xid41"
  /\ IF bg # NULL THEN Goto(t, "xid43") ELSE Goto(t, "xid45")
  /\ UNCHANGED <<infoVars, surfaces, acq, ncalls, drawVars, callVars>>

\* lines 41-42: if (info->bg != NULL) cairo_surface_destroy(info->bg)
Xid41(t) ==
  /\ pc[t] = "xid41"
  /\ IF bg # NULL
       THEN /\ surfaces' = Destroy(bg)
            /\ relBy' = [relBy EXCEPT ![t] = @ + 1]
            /\ Goto(t, "xid43")
       ELSE /\ Goto(t, "xid45")
            /\ UNCHANGED <<surfaces, relBy>>
  /\ UNCHANGED <<infoVars, acq, ncalls, drawVars,
                 arg, width, height, pb, invBy, mine>>

\* line 43: info->bg = NULL
Xid43(t) ==
  /\ pc[t] = "xid43"
  /\ bg' = NULL
  /\ Goto(t, "xid45")
  /\ UNCHANGED <<alpha, mutex, freed, surfaces, acq, ncalls, callVars, drawVars>>

\* Xid45 passing height for width and width for height
Xid45Swapped(t) ==
  /\ pc[t] = "xid45"
  /\ surfaces' = Append(surfaces,
       [kind |-> "xlib", src |-> arg[t], w |-> height[t], h |-> width[t], rel |-> 0])
  /\ bg' = Len(surfaces) + 1
  /\ mine' = [mine EXCEPT ![t] = Len(surfaces) + 1]
  /\ Goto(t, "xid50")
  /\ UNCHANGED <<alpha, mutex, freed, acq, ncalls, drawVars,
                 arg, width, height, pb, invBy, relBy>>

\* lines 45-49: info->bg = cairo_xlib_surface_create(dpy, drawable, .., width, height)
Xid45(t) ==
  /\ pc[t] = "xid45"
  /\ surfaces' = Append(surfaces,
       [kind |-> "xlib", src |-> arg[t], w |-> width[t], h |-> height[t], rel |-> 0])
  /\ bg' = Len(surfaces) + 1
  /\ mine' = [mine EXCEPT ![t] = Len(surfaces) + 1]
  /\ Goto(t, "xid50")
  /\ UNCHANGED <<alpha, mutex, freed, acq, ncalls, drawVars,
                 arg, width, height, pb, invBy, relBy>>

\* line 50: g_mutex_unlock(&info->m)
Xid50(t) ==
  /\ pc[t] = "xid50"
  /\ mutex' = NoOwner
  /\ Goto(t, "xid51")
  /\ UNCHANGED <<bg, alpha, freed, surfaces, acq, ncalls, callVars, drawVars>>

\* line 51: gdk_window_invalidate_rect(container window, NULL, FALSE)
Xid51(t) ==
  /\ pc[t] = "xid51"
  /\ invBy' = [invBy EXCEPT ![t] = @ + 1]
  /\ Goto(t, "xid52")
  /\ UNCHANGED <<infoVars, surfaces, acq, ncalls, drawVars,
                 arg, width, height, pb, relBy, mine>>

\* line 37: return (invalid drawable)
Xid37(t) == pc[t] = "xid37" /\ Leave(t)

\* line 52: return
Xid52(t) == pc[t] = "xid52" /\ Leave(t)

SetDrawable(t) ==
  \/ SetDrawableBegin(t) \/ Xid34Fail(t) \/ Xid34Ok(t) \/ Xid37(t) \/ Xid40(t)
  \/ Xid41(t) \/ Xid43(t) \/ Xid45(t) \/ Xid50(t) \/ Xid51(t) \/ Xid52(t)

\* ---------------------------------- background_info_set_background_by_file
SetFileBegin(t) == \E f \in Files : Enter(t, f, "file58")

\* lines 58-61: gdk_pixbuf_new_from_file set error; g_warning, g_error_free
File58Fail(t) ==
  /\ pc[t] = "file58"
  /\ arg[t] \notin Decodable
  /\ Goto(t, "file62")
  /\ UNCHANGED <<infoVars, surfaces, acq, ncalls, drawVars,
                 arg, width, height, pb, invBy, relBy, mine>>

\* lines 58-59: gdk_pixbuf_new_from_file returned a pixbuf
File58Ok(t) ==
  /\ pc[t] = "file58"
  /\ arg[t] \in Decodable
  /\ pb' = [pb EXCEPT ![t] = "held"]
  /\ Goto(t, "file64")
  /\ UNCHANGED <<infoVars, surfaces, acq, ncalls, drawVars,
                 arg, width, height, invBy, relBy, mine>>

\* line 64: g_mutex_lock(&info->m)
File64(t) ==
  /\ pc[t] = "file64"
  /\ mutex = NoOwner
  /\ mutex' = t
  /\ acq' = [acq EXCEPT ![t] = @ + 1]
  /\ Goto(t, "file65")
  /\ UNCHANGED <<bg, alpha, freed, surfaces, ncalls, callVars, drawVars>>

\* lines 65-66: if (info->bg != NULL) cairo_surface_destroy(info->bg)
File65(t) ==
  /\ pc[t] = "file65"
  /\ IF bg # NULL
       THEN /\ surfaces' = Destroy(bg)
            /\ relBy' = [relBy EXCEPT ![t] = @ + 1]
            /\ Goto(t, "file67")
       ELSE /\ Goto(t, "file69")
            /\ UNCHANGED <<surfaces, relBy>>
  /\ UNCHANGED <<infoVars, acq, ncalls, drawVars,
                 arg, width, height, pb, invBy, mine>>

\* line 67: info->bg = NULL
File67(t) ==
  /\ pc[t] = "file67"
  /\ bg' = NULL
  /\ Goto(t, "file69")
  /\ UNCHANGED <<alpha, mutex, freed, surfaces, acq, ncalls, callVars, drawVars>>

\* File69 constructing the surface without storing it in info->bg
File69NotStored(t) ==
  /\ pc[t] = "file69"
  /\ surfaces' = Append(surfaces,
       [kind |-> "pixbuf", src |-> arg[t],
        w |-> ImageSize(arg[t])[1], h |-> ImageSize(arg[t])[2], rel |-> 0])
  /\ mine' = [mine EXCEPT ![t] = Len(surfaces) + 1]
  /\ Goto(t, "file70")
  /\ UNCHANGED <<infoVars, acq, ncalls, drawVars,
                 arg, width, height, pb, invBy, relBy>>

\* line 69: info->bg = gdk_cairo_surface_create_from_pixbuf(pb, 1, window)
File69(t) ==
  /\ pc[t] = "file69"
  /\ surfaces' = Append(surfaces,
       [kind |-> "pixbuf", src |-> arg[t],
        w |-> ImageSize(arg[t])[1], h |-> ImageSize(arg[t])[2], rel |-> 0])
  /\ bg' = Len(surfaces) + 1
  /\ mine' = [mine EXCEPT ![t] = Len(surfaces) + 1]
  /\ Goto(t, "file70")
  /\ UNCHANGED <<alpha, mutex, freed, acq, ncalls, drawVars,
                 arg, width, height, pb, invBy, relBy>>

\* line 70: g_mutex_unlock(&info->m)
File70(t) ==
  /\ pc[t] = "file70"
  /\ mutex' = NoOwner
  /\ Goto(t, "file71")
  /\ UNCHANGED <<bg, alpha, freed, surfaces, acq, ncalls, callVars, drawVars>>

\* line 71: g_object_unref(pb)
File71(t) ==
  /\ pc[t] = "file71"
  /\ pb' = [pb EXCEPT ![t] = "unref"]
  /\ Goto(t, "file72")
  /\ UNCHANGED <<infoVars, surfaces, acq, ncalls, drawVars,
                 arg, width, height, invBy, relBy, mine>>

\* line 72: gdk_window_invalidate_rect(container window, NULL, FALSE)
File72(t) ==
  /\ pc[t] = "file72"
  /\ invBy' = [invBy EXCEPT ![t] = @ + 1]
  /\ Goto(t, "file73")
  /\ UNCHANGED <<infoVars, surfaces, acq, ncalls, drawVars,
                 arg, width, height, pb, relBy, mine>>

\* line 62: return (decode failure)
File62(t) == pc[t] = "file62" /\ Leave(t)

\* line 73: return
File73(t) == pc[t] = "file73" /\ Leave(t)

SetFile(t) ==
  \/ SetFileBegin(t) \/ File58Fail(t) \/ File58Ok(t) \/ File62(t) \/ File64(t)
  \/ File65(t) \/ File67(t) \/ File69(t) \/ File70(t) \/ File71(t) \/ File72(t)
  \/ File73(t)

\* --------------------------------------------- background_info_change_alpha
ChangeAlphaBegin(t) == \E a \in AlphaArgs : Enter(t, a, "alpha77")

\* Alpha77 clamping the value to [0,1]
Alpha77Clamped(t) ==
  /\ pc[t] = "alpha77"
  /\ alpha' = IF arg[t] > 1 THEN 1 ELSE IF arg[t] < 0 THEN 0 ELSE arg[t]
  /\ Goto(t, "alpha78")
  /\ UNCHANGED <<bg, mutex, freed, surfaces, acq, ncalls, callVars, drawVars>>

\* line 77: info->alpha = alpha
Alpha77(t) ==
  /\ pc[t] = "alpha77"
  /\ alpha' = arg[t]
  /\ Goto(t, "alpha78")
  /\ UNCHANGED <<bg, mutex, freed, surfaces, acq, ncalls, callVars, drawVars>>

\* line 78: gdk_window_invalidate_rect(container window, NULL, FALSE)
Alpha78(t) ==
  /\ pc[t] = "alpha78"
  /\ invBy' = [invBy EXCEPT ![t] = @ + 1]
  /\ Goto(t, "alpha79")
  /\ UNCHANGED <<infoVars, surfaces, acq, ncalls, drawVars,
                 arg, width, height, pb, relBy, mine>>

\* line 79: return
Alpha79(t) == pc[t] = "alpha79" /\ Leave(t)

ChangeAlpha(t) == ChangeAlphaBegin(t) \/ Alpha77(t) \/ Alpha78(t) \/ Alpha79(t)

\* --------------------------------------------------- background_info_clear
\* Called once, when no callback and no mutator is running on the instance.
Clear ==
  /\ ~freed
  /\ \A t \in Threads : pc[t] = "idle"
  /\ surfaces' = IF bg # NULL THEN Destroy(bg) ELSE surfaces
  /\ freed' = TRUE
  /\ UNCHANGED <<bg, alpha, mutex, pc, acq, ncalls, callVars, drawVars>>

Next ==
  \/ Draw
  \/ \E t \in Callers : SetDrawable(t)
  \/ \E t \in Callers : SetFile(t)
  \/ \E t \in Callers : ChangeAlpha(t)
  \/ Clear

Spec == Init /\ [][Next]_vars

\* every thread that can take a step eventually takes one
Fairness ==
  /\ WF_vars(Draw)
  /\ \A t \in Callers : WF_vars(SetDrawable(t) \/ SetFile(t) \/ ChangeAlpha(t))

LiveSpec == Spec /\ Fairness

\* ------------------------------------------------------------ vocabulary
\* a setter between its g_mutex_lock and its g_mutex_unlock
SetterLocked(t) ==
  pc[t] \in {"xid41", "xid43", "xid45", "xid50", "file65", "file67", "file69", "file70"}
\* the callback between its g_mutex_lock and its g_mutex_unlock
DrawLocked == pc[UI] \in {"draw9", "draw10", "draw11"}
NoSetterLocked == \A t \in Callers : ~SetterLocked(t)
FailReturn == {"xid37", "file62"}
OkReturn == {"xid52", "file73"}

\* ------------------------------------------------------------------ claims

\* C1: whatever setters run concurrently with the draw callback, the surface
\* the callback hands to cairo_set_source_surface (line 9) and paints with
\* cairo_paint_with_alpha (line 10) is a constructed surface that no setter
\* has released.
C1_PaintedSurfaceLive ==
  /\ pc[UI] = "draw9" => bg # NULL /\ Live(bg)
  /\ pc[UI] \in {"draw10", "draw11"} => crSource # NULL /\ Live(crSource)

\* the callback is about to paint the surface while a setter waits for the
\* mutex to replace it
C1_Witness ==
  /\ pc[UI] = "draw10"
  /\ crSource # NULL
  /\ \E t \in Callers : pc[t] \in {"xid40", "file64"}

\* C2: at every read the callback makes of info->bg (the null check of line 7
\* and the argument of line 9) the field is NULL or a live surface.
C2_ReadsSeeNullOrLive ==
  pc[UI] \in {"draw7", "draw9"} => (bg = NULL \/ Live(bg))

\* C3: a setter that fails (X error on the geometry query, GError on the
\* decode) writes neither bg nor alpha, releases and constructs no surface,
\* never locks the mutex and requests no invalidation.
C3_FailedSetterNoEffect ==
  /\ [](\A t \in Callers :
          pc[t] \in FailReturn =>
            /\ acq[t] = 0 /\ mutex # t
            /\ invBy[t] = 0 /\ relBy[t] = 0 /\ mine[t] = NULL)
  /\ [][\A t \in Callers :
          (pc'[t] \in FailReturn) # (pc[t] \in FailReturn) =>
            UNCHANGED <<bg, alpha, surfaces, mutex>>]_vars

\* a failed setter returns on a Backed instance while the other caller is
\* replacing the surface
C3_Witness ==
  \E t, u \in Callers :
    /\ pc[t] \in FailReturn
    /\ bg # NULL
    /\ pc[u] \in {"xid40", "file64"}

\* C4: no surface is released twice; outside the setters' critical sections
\* the live surfaces are exactly {bg} when bg is set and none otherwise; a
\* setter constructs its surface only once the previous one is released; and
\* after background_info_clear every surface constructed has been released
\* exactly once.
C4_ReleasedExactlyOnce ==
  /\ \A s \in 1..Len(surfaces) : surfaces[s].rel <= 1
  /\ freed => \A s \in 1..Len(surfaces) : surfaces[s].rel = 1
  /\ ~freed /\ NoSetterLocked => LiveSet = (IF bg = NULL THEN {} ELSE {bg})
  /\ \A t \in Callers : pc[t] \in {"xid45", "file69"} => LiveSet = {}

\* two surfaces were constructed and the instance has been cleared
C4_Witness == freed /\ Len(surfaces) = 2

\* C5: a successful set_background_by_drawable(id) leaves in info->bg, when
\* it unlocks, a live xlib surface on drawable id of exactly the width and
\* height XGetGeometry stored; it requests the invalidation once, after it
\* has assigned the surface and released the mutex; and a callback that
\* paints while that surface is installed paints that surface.
C5_DrawableInstalledThenInvalidated ==
  \A t \in Callers :
    /\ pc[t] = "xid50" =>
         /\ bg = mine[t] /\ Live(bg)
         /\ surfaces[bg].kind = "xlib" /\ surfaces[bg].src = arg[t]
         /\ surfaces[bg].w = width[t] /\ surfaces[bg].h = height[t]
    /\ pc[t] \in {"xid34", "xid37", "xid40", "xid41", "xid43", "xid45", "xid50"} =>
         invBy[t] = 0
    /\ pc[t] = "xid51" => invBy[t] = 0 /\ mine[t] # NULL /\ mutex # t
    /\ pc[t] = "xid52" => invBy[t] = 1 /\ mine[t] # NULL /\ mutex # t
    /\ pc[t] = "xid52" /\ bg = mine[t] /\ pc[UI] \in {"draw10", "draw11"} =>
         /\ crSource = mine[t]
         /\ surfaces[crSource].w = width[t] /\ surfaces[crSource].h = height[t]
    /\ pc[t] = "xid52" /\ bg = mine[t] /\ pc[UI] = "draw11" =>
         Len(paintLog) = 1 /\ paintLog[1].obj = mine[t]

\* the setter has returned from installing a 2x1 drawable and the callback
\* has painted it
C5_Witness ==
  \E t \in Callers :
    /\ pc[t] = "xid52" /\ bg = mine[t]
    /\ width[t] = 2 /\ height[t] = 1
    /\ pc[UI] = "draw11"

\* the paints a finished callback made: the background, if it painted one,
\* then the visible children in child-list order
ChildPaints(cl, v) ==
  [k \in 1..Len(SelectSeq(cl, LAMBDA c : c \in v)) |->
     [what |-> "child", obj |-> SelectSeq(cl, LAMBDA c : c \in v)[k], a |-> 1]]

\* C6: in one callback the background (if info->bg was non-NULL) is painted
\* first, with alpha = info->alpha, and then exactly the visible children are
\* painted, in the order of the container's child list.
C6_PaintOrder ==
  /\ [](pc[UI] = "drawn" =>
          \/ crSource = NULL /\ paintLog = ChildPaints(kids, visible)
          \/ /\ crSource # NULL
             /\ Len(paintLog) >= 1
             /\ paintLog[1].what = "surface" /\ paintLog[1].obj = crSource
             /\ Tail(paintLog) = ChildPaints(kids, visible))
  /\ [](pc[UI] \in {"draw7", "draw8", "draw9", "draw10"} => paintLog = <<>>)
  /\ [][pc[UI] = "draw10" /\ pc'[UI] = "draw11" =>
          bg # NULL /\ paintLog' = <<[what |-> "surface", obj |-> bg, a |-> alpha]>>]_vars

\* a callback on a Backed instance whose first child is hidden and whose
\* second child is visible
C6_Witness ==
  /\ pc[UI] = "drawn"
  /\ crSource # NULL
  /\ kids = <<2, 1>>
  /\ visible = {1}

\* C7: no step of the callback changes info->bg or info->alpha, constructs or
\* releases a surface, or requests an invalidation; when it returns it does
\* not hold the mutex and its return value is TRUE.
C7_DrawChangesNothing ==
  /\ [][pc'[UI] # pc[UI] => UNCHANGED <<bg, alpha, surfaces, invBy, freed>>]_vars
  /\ [](pc[UI] = "drawn" => mutex # UI /\ ret = "TRUE")

\* the callback has returned after painting a surface with a changed alpha
C7_Witness ==
  /\ pc[UI] = "drawn"
  /\ Len(paintLog) >= 1 /\ paintLog[1].what = "surface" /\ paintLog[1].a # 1

\* C8: change_alpha(info, a) stores a, unclamped, in info->alpha and leaves
\* info->bg and the surfaces alone; it never touches the mutex, so it can
\* always take its next step whoever holds the mutex; it requests one
\* invalidation; storing the value info->alpha already has changes nothing.
C8_ChangeAlpha ==
  /\ [][\A t \in Callers :
          pc[t] = "alpha77" /\ pc'[t] # "alpha77" =>
            /\ alpha' = arg[t]
            /\ UNCHANGED <<bg, surfaces, mutex>>
            /\ alpha = arg[t] => UNCHANGED <<bg, alpha, surfaces, mutex, freed>>]_vars
  /\ [](\A t \in Callers :
          /\ pc[t] \in {"alpha77", "alpha78", "alpha79"} =>
               acq[t] = 0 /\ mutex # t /\ ENABLED ChangeAlpha(t)
          /\ pc[t] \in {"alpha77", "alpha78"} => invBy[t] = 0
          /\ pc[t] = "alpha79" => invBy[t] = 1)

\* change_alpha has stored 2 (outside [0,1]) while another thread holds the
\* mutex
C8_Witness ==
  \E t \in Callers :
    /\ pc[t] = "alpha78"
    /\ alpha = 2
    /\ mutex \in Threads

\* C9: the instance starts Empty with alpha 1; once a surface has been
\* constructed, info->bg is non-NULL, and live until the instance is cleared,
\* at every point where no setter is between its lock and its unlock,
\* whatever failed setters, change_alpha calls and callbacks run.
C9_EmptyThenBacked ==
  /\ ncalls = 0 => bg = NULL /\ alpha = 1 /\ mutex = NoOwner /\ surfaces = <<>>
  /\ surfaces = <<>> => bg = NULL
  /\ surfaces # <<>> /\ NoSetterLocked => bg # NULL /\ (~freed => Live(bg))
  /\ \A t \in Callers : pc[t] \in OkReturn /\ NoSetterLocked => bg # NULL

\* after a successful setter, a failed setter returns and the instance is
\* still Backed
C9_Witness ==
  \E t \in Callers :
    /\ pc[t] \in FailReturn
    /\ bg # NULL /\ Live(bg)
    /\ NoSetterLocked

\* C10: a thread that has returned does not hold the mutex; the mutex is held
\* exactly by the one thread that is between its lock and its unlock, so the
\* callback's paint and a setter's replacement never overlap; and, every
\* thread being scheduled fairly, every call that has begun returns.
C10_LockDiscipline ==
  /\ [](/\ \A t \in Callers : SetterLocked(t) <=> mutex = t
        /\ DrawLocked <=> mutex = UI
        /\ Cardinality({t \in Callers : SetterLocked(t)} \cup
                       (IF DrawLocked THEN {UI} ELSE {})) <= 1)
  /\ \A t \in Threads : []<>(pc[t] = "idle")

\* a setter and the callback both wait for the mutex while the other setter
\* holds it
C10_Witness ==
  \E t, u \in Callers :
    /\ SetterLocked(t)
    /\ pc[u] \in {"xid40", "file64"}
    /\ pc[UI] = "draw8"

=============================================================================
